---- MODULE Spec2Model ----
(***************************************************************************)
(* Model of the quota scheduler of trafficbot                              *)
(* (src/modules/traffic_scheduler.py, class TrafficScheduler).             *)
(*                                                                         *)
(* Time is counted in whole hours since 2024-12-30 00:00 (a Monday), the   *)
(* value datetime.now() returns being the variable now.  A datetime is     *)
(* the integer day * 24 + hour; a bucket key, the string                   *)
(* strftime('%Y-%m-%d') + '-' + hour in the source, is the pair            *)
(* <<day, hour>>, which identifies the same (date, hour).                  *)
(*                                                                         *)
(* The source computes the targets and the weighted table in floating      *)
(* point and rounds up with math.ceil; the operators below compute the     *)
(* same quotients in integers.  On every configuration the bounds of this  *)
(* module reach, the two agree (compared by running the source); the       *)
(* float product of the weighted modes can be one above the exact ceiling  *)
(* for larger totals, which MaxTotal keeps out.                            *)
(***************************************************************************)
EXTENDS Integers, Sequences, FiniteSets, TLC

VARIABLES
    target_visits,   \* self.target_visits: period -> target
    start_date,      \* self.start_date (None or a datetime)
    end_date,        \* self.end_date (None or a datetime)
    active_hours,    \* self.active_hours, a list of hours
    active_days,     \* self.active_days, used by membership only: a set
    schedule_mode,   \* self.schedule_mode
    hourly_visits,   \* live counters
    daily_visits,
    monthly_visits,
    total_visits,
    last_hour,       \* rollover markers (None until the first permit)
    last_day,
    last_month,
    hourly_targets,  \* self.hourly_targets: bucket key -> target
    now,             \* the wall clock read by datetime.now()
    pending,         \* visits the gate has permitted that are still running
    op,              \* history: the last call, <<name, arguments ...>>
    ret,             \* history: what the last operation returned, as a string
    raised,          \* history: the last operation ended with an exception
    snapshot,        \* history: the dict the last operation returned, if it
                     \*   was get_stats (None otherwise)
    calls_left,      \* history: configuration calls the run may still make
    user_targets,    \* history: last value the user gave set_target, per period
    bucket_recs,     \* history: record_visit calls made in the bucket of now
    gate_seen,       \* history: the gate calls made in the bucket of now:
                     \*   "none", "rejected" (all returned False) or "permitted"
    spent            \* history: a record_visit brought hourly_visits up to the
                     \*   target of its bucket, and no gate call has returned True since

config   == <<target_visits, start_date, end_date, active_hours, active_days,
              schedule_mode, hourly_targets>>
counters == <<hourly_visits, daily_visits, monthly_visits, total_visits>>
markers  == <<last_hour, last_day, last_month>>
history  == <<op, ret, raised, snapshot, calls_left, user_targets,
              bucket_recs, gate_seen, spent>>

\* TrafficBot (src/modules/traffic_bot.py): the pool, its queue, its threads
VARIABLES
    keywords,        \* self.keywords
    urls,            \* self.urls
    running,         \* self.running
    paused,          \* self.paused
    worker_threads,  \* self.worker_threads: the threads stop() will join
    task_queue,      \* self.task_queue, oldest first: <<type, argument>>
    stats,           \* self.stats (visits, successful_visits, failed_visits)
    stopping,        \* a stop() call is inside its join loop
    pc,              \* per thread: where it is in worker()
    task,            \* per thread: the task it dequeued (None between tasks)
    reg,             \* per thread: the value an augmented assignment has loaded
    results,         \* per thread: what search_google returned
    put_log,         \* history, per thread: URLs it enqueued for its task
    outcome,         \* history, per thread: how its task went
    enqueued,         \* history: tasks put on the queue so far
    dequeued,        \* history: tasks that get() has handed to a worker
    links,           \* the web: the links a results page of the search engine holds
    starts_left,     \* history: start() calls that may still spawn workers
    spawns_left,     \* history: threads the run may still spawn
    resumed,         \* history: resume() ended a pause, and no pause(), stop()
                     \*   or start() has taken effect since
    born,            \* history: threads spawned so far
    completed,       \* history: searches and visits that completed successfully
    record_calls,    \* history: record_visit calls that have returned
    visit_incs,      \* history: executions of stats["visits"] += 1 that have finished
    seeded           \* history: what the last start() that took effect found:
                     \*   the tasks put so far (base), the URLs and keywords
                     \*   it seeded, the searches queued or in hand (searches)

\* one call of TrafficBot.visit_url followed statement by statement, with the
\* draws of BehaviorProfile (src/modules/browser_manager.py)
VARIABLES
    visit_pc,        \* where the call is in visit_url
    device_type,     \* the local device_type (None before line 238)
    referrer_type,   \* the local referrer_type (None before line 255)
    should_bounce,   \* the local should_bounce (None before line 290)
    subpage_count,   \* the local subpage_count (None before line 311)
    subpage_i,       \* subpages the loop of line 330 has gone through
    visit_ret        \* what the call returned, as a string

pool     == <<keywords, urls, running, paused, worker_threads, task_queue,
              stats, stopping>>
threads  == <<pc, task, reg, results>>
visit    == <<visit_pc, device_type, referrer_type, should_bounce,
              subpage_count, subpage_i, visit_ret>>
runlog   == <<links, starts_left, spawns_left, born, resumed, visit, seeded>>
botlog   == <<put_log, outcome, enqueued, dequeued, runlog, completed,
              record_calls, visit_incs>>
bot      == <<pool, threads, botlog>>
vars     == <<config, counters, markers, now, pending, history, bot>>

\* None is the empty tuple and a field that may be None holds <<value>> otherwise
None == << >>
Some(x) == <<x>>

(***************************************************************************)
(* Bounds of the model.                                                    *)
(***************************************************************************)
MaxTarget == 2       \* set_target is given values -1 .. MaxTarget
MaxVisits == 2       \* record_visit calls in a run
MaxConfigCalls == 2  \* configuration calls in a run of SpecConfig
TableCalls == 3      \* configuration calls in a run of SpecTable
MaxNegative == 3     \* set_target is given values down to -MaxNegative in SpecTable
MaxThreads == 2      \* worker threads spawned in a run of SpecBot
MaxStarts == 2       \* start() calls that find the pool stopped, in a run
MaxTotal == 720      \* total target that the weighted modes distribute
MaxDaily == 2        \* daily target that mode random allocates over several hours
MaxRandomHours == 2  \* active hours mode random allocates such a target over

(***************************************************************************)
(* The calendar of datetime, for the year 2024.                            *)
(***************************************************************************)
HoursPerDay == 24
DaysPerWeek == 7
MonthLen == <<31, 29, 31, 30, 31, 30, 31, 31, 30, 31, 30, 31>>

Day(t)  == t \div HoursPerDay          \* date of a datetime
Hour(t) == t % HoursPerDay             \* datetime.hour
DayOfYear(d) == d + 364                \* day 0 is 2024-12-30; 0 is 2024-01-01

RECURSIVE MonthFrom(_, _)
MonthFrom(m, n) == IF m < 12 /\ n >= MonthLen[m] THEN MonthFrom(m + 1, n - MonthLen[m])
                   ELSE <<m, n + 1>>
YMD(d)        == MonthFrom(1, DayOfYear(d))   \* <<month, day of month>>
Month(d)      == YMD(d)[1]                    \* datetime.month
DayOfMonth(d) == YMD(d)[2]                    \* datetime.day
Weekday(d)    == DayOfYear(d) % DaysPerWeek   \* datetime.weekday(), Monday = 0
Key(t)        == <<Day(t), Hour(t)>>          \* bucket key of a datetime
\* datetime(year, month, monthrange(year, month)[1], 23, 59, 59)
EndOfMonth(t) == (Day(t) + (MonthLen[Month(Day(t))] - DayOfMonth(Day(t)))) * HoursPerDay
                 + (HoursPerDay - 1)

Range(s) == {s[i] : i \in DOMAIN s}
Max(a, b) == IF a >= b THEN a ELSE b
Min(a, b) == IF a <= b THEN a ELSE b
\* the quotient rounded down instead
Floor(a, b) == a \div b
\* math.ceil(a / b) for b > 0
Ceil(a, b) == -((-a) \div b)

(***************************************************************************)
(* calculate_schedule: the campaign, the derived targets, the table.       *)
(***************************************************************************)
Periods == {"hourly", "daily", "monthly", "total"}

\* total_days = (end_date - start_date).days + 1; timedelta.days is the floor
TotalDays(sd, ed) == ((ed - sd) \div HoursPerDay) + 1

\* the day offsets d of range(total_days) whose date falls on an active weekday
ActiveOffsets(sd, ed, ad) ==
    {o \in 0 .. (TotalDays(sd, ed) - 1) : Weekday(Day(sd) + o) \in ad}

ActiveDaysCount(sd, ed, ad) == Cardinality(ActiveOffsets(sd, ed, ad))

\* the branch of the if / elif chain that is taken
Authority(tv) ==
    IF tv["monthly"] > 0 THEN "monthly"
    ELSE IF tv["total"] > 0 THEN "total"
    ELSE IF tv["daily"] > 0 THEN "daily"
    ELSE IF tv["hourly"] > 0 THEN "hourly"
    ELSE "none"

\* the divisions of the taken branch that raise ZeroDivisionError
DivisionByZero(tv, td, adc, ahc) ==
    CASE Authority(tv) = "monthly" -> adc = 0 \/ ahc = 0
      [] Authority(tv) = "total"   -> adc = 0 \/ ahc = 0
      [] Authority(tv) = "daily"   -> ahc = 0 \/ td = 0
      [] Authority(tv) = "hourly"  -> td = 0
      [] OTHER                     -> FALSE

\* math.ceil(x * (active_days_count / total_days) * 30)
PerMonth(x, td, adc) == IF adc = 0 THEN 0 ELSE Ceil(x * adc * 30, td)

\* the targets the taken branch assigns (no division by zero)
DeriveTargets(tv, td, adc, ahc) ==
    CASE Authority(tv) = "monthly" ->
            [hourly  |-> Ceil(tv["monthly"], adc * ahc),
             daily   |-> Ceil(tv["monthly"], adc),
             monthly |-> tv["monthly"],
             total   |-> tv["monthly"]]
      [] Authority(tv) = "total" ->
            [hourly  |-> Ceil(tv["total"], adc * ahc),
             daily   |-> Ceil(tv["total"], adc),
             monthly |-> IF td = 0 THEN tv["total"] ELSE Ceil(tv["total"] * 30, td),
             total   |-> tv["total"]]
      [] Authority(tv) = "daily" ->
            [hourly  |-> Ceil(tv["daily"], ahc),
             daily   |-> tv["daily"],
             monthly |-> PerMonth(tv["daily"], td, adc),
             total   |-> tv["daily"] * adc]
      [] Authority(tv) = "hourly" ->
            [hourly  |-> tv["hourly"],
             daily   |-> tv["hourly"] * ahc,
             monthly |-> PerMonth(tv["hourly"] * ahc, td, adc),
             total   |-> tv["hourly"] * adc * ahc]
      [] OTHER -> tv

\* the keys the loops over days_range and active_hours write
TableKeys(sd, offs, ah) == {<<Day(sd) + o, ah[i]>> : o \in offs, i \in DOMAIN ah}

\* hour_idx = day_offset * 24 + hour
HourIdx(o, h) == o * HoursPerDay + h

\* the weight appended for the bucket of day offset o and hour h
Weight(mode, tah, o, h) ==
    IF mode = "frontloaded" THEN Max(1, tah - HourIdx(o, h)) ELSE HourIdx(o, h) + 1

RECURSIVE DayWeight(_, _, _, _, _)
DayWeight(mode, tah, o, ah, i) ==
    IF i > Len(ah) THEN 0
    ELSE Weight(mode, tah, o, ah[i]) + DayWeight(mode, tah, o, ah, i + 1)

\* total_weight = sum(w[1] for w in weights), days 0 .. n - 1
RECURSIVE TotalWeight(_, _, _, _, _)
TotalWeight(mode, tah, offs, ah, n) ==
    IF n <= 0 THEN 0
    ELSE (IF (n - 1) \in offs THEN DayWeight(mode, tah, n - 1, ah, 1) ELSE 0)
         + TotalWeight(mode, tah, offs, ah, n - 1)

\* the table with mode even giving each bucket the daily target
HourlyTableDaily(tv, sd, ed, ah, ad, mode) ==
    LET offs == ActiveOffsets(sd, ed, ad)
        keys == TableKeys(sd, offs, ah)
        tah  == Cardinality(offs) * Len(ah)
        tw   == TotalWeight(mode, tah, offs, ah, TotalDays(sd, ed))
    IN  IF mode = "even"
        THEN [k \in keys |-> tv["daily"]]
        ELSE [k \in keys |->
                 Ceil(Weight(mode, tah, k[1] - Day(sd), k[2]) * tv["total"], tw)]

\* self.hourly_targets as the mode's loop leaves it
HourlyTable(tv, sd, ed, ah, ad, mode) ==
    LET offs == ActiveOffsets(sd, ed, ad)
        keys == TableKeys(sd, offs, ah)
        tah  == Cardinality(offs) * Len(ah)
        tw   == TotalWeight(mode, tah, offs, ah, TotalDays(sd, ed))
    IN  IF mode = "even"
        THEN [k \in keys |-> tv["hourly"]]
        ELSE [k \in keys |->
                 Ceil(Weight(mode, tah, k[1] - Day(sd), k[2]) * tv["total"], tw)]

\* the loop stopping one unit short (while remaining > 1)
RECURSIVE AllocateShort(_, _)
AllocateShort(hourly_values, remaining) ==
    IF remaining <= 1 THEN {hourly_values}
    ELSE UNION {AllocateShort([hourly_values EXCEPT ![idx] = @ + 1], remaining - 1) :
                   idx \in DOMAIN hourly_values}

\* mode random: the while loop of lines 177-180, every outcome of its draws
RECURSIVE Allocate(_, _)
Allocate(hourly_values, remaining) ==
    IF remaining <= 0 THEN {hourly_values}
    ELSE UNION {Allocate([hourly_values EXCEPT ![idx] = @ + 1], remaining - 1) :
                   idx \in DOMAIN hourly_values}

\* random.randint(0, len(hours_for_day) - 1) raises ValueError on an empty range
EmptyRange(tv, adc, ahc, mode) ==
    mode = "random" /\ adc > 0 /\ ahc = 0 /\ tv["daily"] > 0

\* the index whose value the loop of lines 182-183 leaves under hour h
LastIndex(ah, h) == CHOOSE i \in DOMAIN ah :
                        ah[i] = h /\ \A j \in DOMAIN ah : ah[j] = h => j <= i

\* mode random: the tables lines 164-183 can leave, one allocation per active day
RandomTables(tv, sd, ed, ah, ad) ==
    LET offs == ActiveOffsets(sd, ed, ad)
        keys == TableKeys(sd, offs, ah)
        days == [offs -> Allocate([i \in DOMAIN ah |-> 0], tv["daily"])]
    IN  {[k \in keys |-> f[k[1] - Day(sd)][LastIndex(ah, k[2])]] : f \in days}

\* the tables calculate_schedule can leave in self.hourly_targets
Tables(tv, sd, ed, ah, ad, mode) ==
    IF mode = "random" THEN RandomTables(tv, sd, ed, ah, ad)
    ELSE {HourlyTable(tv, sd, ed, ah, ad, mode)}

\* the allocations of mode random that the model enumerates
Allocatable(tv, ahc, mode) ==
    mode = "random" =>
        \/ tv["daily"] <= 0
        \/ ahc = 0
        \/ tv["daily"] <= MaxDaily /\ ahc <= MaxRandomHours

\* the weighted tables the model computes: on the campaigns of this module
\* with a total target up to MaxTotal, the integer ceilings are the values
\* the source's float arithmetic gives
Weighable(tv, mode) ==
    mode \in {"frontloaded", "backloaded"} => tv["total"] <= MaxTotal

\* the start derived anew on every calculation
DefaultStartNow(sd, clk) == clk

\* start_date and end_date after the defaulting at the head of calculate_schedule
DefaultStart(sd, clk) == IF sd = None THEN clk ELSE sd[1]
DefaultEnd(ed, clk)   == IF ed = None THEN EndOfMonth(clk) ELSE ed[1]

(***************************************************************************)
(* The inputs the operations are called with.                              *)
(***************************************************************************)
\* the clock and the campaign bounds: hours 0 and 1 of Monday 2024-12-30 and
\* of Tuesday 2024-12-31, the last two days of their month
ClockDays    == 0 .. 1
ClockHours   == 0 .. 1
Instants     == {d * HoursPerDay + h : d \in ClockDays, h \in ClockHours}
TargetValues == -1 .. MaxTarget
PeriodNames  == Periods \cup {"weekly"}
HourLists    == {<< >>, <<0>>, <<1>>, <<1, 0>>}
DaySets      == {{}, {0}, {1}}
\* (mode random is among the modes of SpecTable)
ModeNames    == {"even", "frontloaded", "backloaded", "bogus"}
ValidModes   == {"even", "random", "frontloaded", "backloaded"}

(***************************************************************************)
(* TrafficScheduler.__init__, and the configuration calls the run is given *)
(***************************************************************************)
Created(budget) ==
    /\ target_visits = [p \in Periods |-> 0]
    /\ start_date = None
    /\ end_date = None
    /\ active_hours = [i \in 1 .. HoursPerDay |-> i - 1]
    /\ active_days = 0 .. (DaysPerWeek - 1)
    /\ schedule_mode = "even"
    /\ hourly_visits = 0
    /\ daily_visits = 0
    /\ monthly_visits = 0
    /\ total_visits = 0
    /\ last_hour = None
    /\ last_day = None
    /\ last_month = None
    /\ hourly_targets = << >>
    /\ now = 0
    /\ pending = 0
    /\ op = <<"__init__">>
    /\ ret = "None"
    /\ snapshot = None
    /\ raised = FALSE
    /\ calls_left = budget
    /\ user_targets = [p \in Periods |-> 0]
    /\ bucket_recs = 0
    /\ gate_seen = "none"
    /\ spent = FALSE

(***************************************************************************)
(* TrafficBot.__init__: nothing configured, no thread, an empty queue.     *)
(***************************************************************************)
Threads == 1 .. MaxThreads
KeywordNames == {"k1"}
UrlNames == {"u1"}
\* what a search can find: nothing, fewer links than the cap, more than it
SearchResults == {<< >>, <<"r1", "r2">>, <<"r1", "r2", "r3", "r4", "r5">>}
TopResults == 3

BotCreated(starts, spawns, pages) ==
    /\ keywords = << >>
    /\ urls = << >>
    /\ running = FALSE
    /\ paused = FALSE
    /\ worker_threads = << >>
    /\ task_queue = << >>
    /\ stats = [visits |-> 0, successful_visits |-> 0, failed_visits |-> 0]
    /\ stopping = FALSE
    /\ pc = [w \in Threads |-> "unborn"]
    /\ task = [w \in Threads |-> None]
    /\ reg = [w \in Threads |-> 0]
    /\ results = [w \in Threads |-> << >>]
    /\ put_log = [w \in Threads |-> << >>]
    /\ outcome = [w \in Threads |-> "none"]
    /\ enqueued = 0
    /\ dequeued = 0
    /\ links \in pages
    /\ starts_left = starts
    /\ spawns_left = spawns
    /\ resumed = FALSE
    /\ born = 0
    /\ completed = 0
    /\ record_calls = 0
    /\ visit_incs = 0
    /\ seeded = [base |-> 0, urls |-> 0, keywords |-> 0, searches |-> 0]
    /\ visit_pc = "idle"
    /\ device_type = None
    /\ referrer_type = None
    /\ should_bounce = None
    /\ subpage_count = None
    /\ subpage_i = 0
    /\ visit_ret = "none"

\* a run of Spec makes one configuration call, at any point of the run
Init == Created(1) /\ BotCreated(0, 0, {<< >>})

(***************************************************************************)
(* calculate_schedule, run on the fields tv, sd, ed, ah, ad, mode that the *)
(* caller has just assigned.  A ZeroDivisionError leaves the assignments   *)
(* made before it and nothing else.  In mode random the table is one of    *)
(* the tables the draws can produce.                                       *)
(***************************************************************************)
calculate_schedule(tv, sd, ed, ah, ad, mode) ==
    LET sd1 == DefaultStart(sd, now)
        ed1 == DefaultEnd(ed, now)
        td  == TotalDays(sd1, ed1)
        adc == ActiveDaysCount(sd1, ed1, ad)
        ahc == Len(ah)
        tv1 == DeriveTargets(tv, td, adc, ahc)
    IN  /\ start_date' = Some(sd1)
        /\ end_date' = Some(ed1)
        /\ active_hours' = ah
        /\ active_days' = ad
        /\ schedule_mode' = mode
        /\ IF DivisionByZero(tv, td, adc, ahc)
           THEN /\ raised' = TRUE
                /\ target_visits' = tv
                /\ UNCHANGED hourly_targets
           ELSE /\ target_visits' = tv1
                /\ Allocatable(tv1, ahc, mode)
                /\ Weighable(tv1, mode)
                /\ IF EmptyRange(tv1, adc, ahc, mode)
                   THEN /\ raised' = TRUE
                        /\ hourly_targets' = << >>
                   ELSE /\ raised' = FALSE
                        /\ hourly_targets' \in Tables(tv1, sd1, ed1, ah, ad, mode)

\* what every configuration call leaves alone, and its entry in the history
Called(call) ==
    /\ calls_left > 0
    /\ calls_left' = calls_left - 1
    /\ op' = call
    /\ ret' = "None"
    /\ snapshot' = None
    /\ UNCHANGED <<counters, markers, now, pending, bucket_recs, gate_seen, spent>>

\* set_target recalculating the schedule for an unknown period too
set_target_unchecked(period, value) ==
    /\ Called(<<"set_target", period, value>>)
    /\ IF period \in DOMAIN target_visits
       THEN /\ user_targets' = [user_targets EXCEPT ![period] = value]
            /\ calculate_schedule([target_visits EXCEPT ![period] = value],
                                  start_date, end_date, active_hours, active_days,
                                  schedule_mode)
       ELSE /\ calculate_schedule(target_visits, start_date, end_date,
                                  active_hours, active_days, schedule_mode)
            /\ UNCHANGED user_targets

set_target(period, value) ==
    /\ Called(<<"set_target", period, value>>)
    /\ IF period \in DOMAIN target_visits
       THEN /\ user_targets' = [user_targets EXCEPT ![period] = value]
            /\ calculate_schedule([target_visits EXCEPT ![period] = value],
                                  start_date, end_date, active_hours, active_days,
                                  schedule_mode)
       ELSE /\ raised' = FALSE
            /\ UNCHANGED <<config, user_targets>>

set_time_range(sd, ed) ==
    /\ Called(<<"set_time_range", sd, ed>>)
    /\ calculate_schedule(target_visits, Some(sd), Some(ed), active_hours,
                          active_days, schedule_mode)
    /\ UNCHANGED user_targets

set_active_hours(hours) ==
    /\ Called(<<"set_active_hours", hours>>)
    /\ calculate_schedule(target_visits, start_date, end_date, hours, active_days,
                          schedule_mode)
    /\ UNCHANGED user_targets

set_active_days(days) ==
    /\ Called(<<"set_active_days", days>>)
    /\ calculate_schedule(target_visits, start_date, end_date, active_hours, days,
                          schedule_mode)
    /\ UNCHANGED user_targets

set_schedule_mode(mode) ==
    /\ Called(<<"set_schedule_mode", mode>>)
    /\ IF mode \in ValidModes
       THEN calculate_schedule(target_visits, start_date, end_date, active_hours,
                               active_days, mode)
       ELSE /\ raised' = FALSE
            /\ UNCHANGED config
    /\ UNCHANGED user_targets

\* calculate_schedule called on its own, with no setter before it
recalculate ==
    /\ Called(<<"calculate_schedule">>)
    /\ calculate_schedule(target_visits, start_date, end_date, active_hours,
                          active_days, schedule_mode)
    /\ UNCHANGED user_targets

(***************************************************************************)
(* should_generate_traffic and record_visit                                *)
(***************************************************************************)
\* now < self.start_date, now > self.end_date (skipped while the field is None)
BeforeStart(t) == start_date # None /\ t < start_date[1]
AfterEnd(t)    == end_date # None /\ t > end_date[1]

\* current_hour not in self.active_hours or current_day not in self.active_days
Inactive(t) == Hour(t) \notin Range(active_hours) \/ Weekday(Day(t)) \notin active_days

\* current_hour_key in self.hourly_targets and
\* self.hourly_visits >= self.hourly_targets[current_hour_key]
QuotaReached(t) ==
    /\ Key(t) \in DOMAIN hourly_targets
    /\ hourly_visits >= hourly_targets[Key(t)]

\* the early returns without the test of end_date
RejectsNoEnd(t) == BeforeStart(t) \/ Inactive(t) \/ QuotaReached(t)

\* the four early returns of should_generate_traffic
Rejects(t) == BeforeStart(t) \/ AfterEnd(t) \/ Inactive(t) \/ QuotaReached(t)

\* the three resets made on the way to return True
Rollover(t) ==
    /\ hourly_visits' = IF last_hour # Some(Hour(t)) THEN 0 ELSE hourly_visits
    /\ last_hour' = Some(Hour(t))
    /\ daily_visits' = IF last_day # Some(DayOfMonth(Day(t))) THEN 0 ELSE daily_visits
    /\ last_day' = Some(DayOfMonth(Day(t)))
    /\ monthly_visits' = IF last_month # Some(Month(Day(t))) THEN 0 ELSE monthly_visits
    /\ last_month' = Some(Month(Day(t)))
    /\ UNCHANGED total_visits

should_generate_traffic ==
    /\ op' = <<"should_generate_traffic">>
    /\ raised' = FALSE
    /\ snapshot' = None
    /\ IF Rejects(now)
       THEN /\ ret' = "False"
            /\ gate_seen' = IF gate_seen = "none" THEN "rejected" ELSE gate_seen
            /\ UNCHANGED <<counters, markers, spent, pending>>
       ELSE /\ ret' = "True"
            /\ pending' = Min(pending + 1, MaxVisits)
            /\ gate_seen' = "permitted"
            /\ spent' = FALSE
            /\ Rollover(now)
    /\ UNCHANGED <<config, now, calls_left, user_targets, bucket_recs>>

\* called by visit_url and search_google when a permitted visit or search
\* has completed (traffic_bot.py)
record_visit ==
    /\ pending > 0
    /\ total_visits < MaxVisits
    /\ pending' = pending - 1
    /\ hourly_visits' = hourly_visits + 1
    /\ daily_visits' = daily_visits + 1
    /\ monthly_visits' = monthly_visits + 1
    /\ total_visits' = total_visits + 1
    /\ op' = <<"record_visit">>
    /\ ret' = "None"
    /\ snapshot' = None
    /\ raised' = FALSE
    /\ bucket_recs' = bucket_recs + 1
    /\ spent' = (\/ spent
                  \/ /\ Key(now) \in DOMAIN hourly_targets
                     /\ hourly_visits + 1 >= hourly_targets[Key(now)])
    /\ UNCHANGED <<config, markers, now, calls_left, user_targets, gate_seen>>

\* round(a / b) for a >= 0 and b > 0: to the nearest integer, a tie to the
\* even one (the source rounds the float quotient; the two agree for every
\* counter below 23)
Round(a, b) ==
    LET q == a \div b
        r == a % b
    IN  IF 2 * r < b THEN q
        ELSE IF 2 * r > b THEN q + 1
        ELSE IF q % 2 = 0 THEN q ELSE q + 1

Percent == 100

\* the percentage without the cap of min(100, ...)
ProgressUncapped(visits, target) ==
    IF target > 0 THEN Round(visits * Percent, target) ELSE 0

\* stats['progress'][period] for a counter and its target
Progress(visits, target) ==
    IF target > 0 THEN Min(Percent, Round(visits * Percent, target)) ELSE 0

\* the counter get_stats reports for a period
Current(period) ==
    CASE period = "hourly"  -> hourly_visits
      [] period = "daily"   -> daily_visits
      [] period = "monthly" -> monthly_visits
      [] period = "total"   -> total_visits

get_stats ==
    /\ op' = <<"get_stats">>
    /\ ret' = "stats"
    /\ raised' = FALSE
    /\ snapshot' = Some([targets |-> target_visits,
                         current |-> [p \in Periods |-> Current(p)],
                         progress |-> [p \in Periods |->
                                          Progress(Current(p), target_visits[p])],
                         hourly_target |-> IF Key(now) \in DOMAIN hourly_targets
                                           THEN hourly_targets[Key(now)] ELSE 0,
                         schedule_mode |-> schedule_mode,
                         active_hours |-> active_hours,
                         active_days |-> active_days])
    /\ UNCHANGED <<config, counters, markers, now, pending, calls_left,
                   user_targets, bucket_recs, gate_seen, spent>>

\* the wall clock moves on to a later hour
Tick ==
    /\ \E t \in Instants : t > now /\ now' = t
    /\ op' = <<"tick">>
    /\ ret' = "None"
    /\ snapshot' = None
    /\ raised' = FALSE
    /\ bucket_recs' = 0
    /\ gate_seen' = "none"
    /\ UNCHANGED <<config, counters, markers, pending, calls_left, user_targets,
                   spent>>

\* the scheduler driven by one caller; the pool is not started
Next ==
    \/ \E p \in PeriodNames, v \in TargetValues :
          set_target(p, v) /\ UNCHANGED bot
    \/ \E sd \in Instants, ed \in Instants :
          set_time_range(sd, ed) /\ UNCHANGED bot
    \/ \E hours \in HourLists : set_active_hours(hours) /\ UNCHANGED bot
    \/ \E days \in DaySets : set_active_days(days) /\ UNCHANGED bot
    \/ \E mode \in ModeNames : set_schedule_mode(mode) /\ UNCHANGED bot
    \/ recalculate /\ UNCHANGED bot
    \/ should_generate_traffic /\ UNCHANGED bot
    \/ record_visit /\ UNCHANGED bot
    \/ get_stats /\ UNCHANGED bot
    \/ Tick /\ UNCHANGED bot

Spec == Init /\ [][Next]_vars

(***************************************************************************)
(* The configuration calls alone, more of them in a run.                   *)
(***************************************************************************)
InitConfig == Created(MaxConfigCalls) /\ BotCreated(0, 0, {<< >>})

NextConfig ==
    \/ \E p \in PeriodNames, v \in TargetValues :
          set_target(p, v) /\ UNCHANGED bot
    \/ \E sd \in Instants, ed \in Instants :
          set_time_range(sd, ed) /\ UNCHANGED bot
    \/ \E hours \in HourLists : set_active_hours(hours) /\ UNCHANGED bot
    \/ \E days \in DaySets : set_active_days(days) /\ UNCHANGED bot
    \/ \E mode \in ModeNames : set_schedule_mode(mode) /\ UNCHANGED bot
    \/ recalculate /\ UNCHANGED bot

SpecConfig == InitConfig /\ [][NextConfig]_vars

(***************************************************************************)
(* The configuration calls with all four modes, enough of them in a run to *)
(* set a window, a mode and a target.                                      *)
(***************************************************************************)
\* the targets set_target is given in a run of SpecTable
TableTargets == -MaxNegative .. MaxTarget

InitTable == Created(TableCalls) /\ BotCreated(0, 0, {<< >>})

NextTable ==
    \/ \E p \in PeriodNames, v \in TableTargets :
          set_target(p, v) /\ UNCHANGED bot
    \/ \E sd \in Instants, ed \in Instants :
          set_time_range(sd, ed) /\ UNCHANGED bot
    \/ \E hours \in HourLists : set_active_hours(hours) /\ UNCHANGED bot
    \/ \E days \in DaySets : set_active_days(days) /\ UNCHANGED bot
    \/ \E mode \in ValidModes : set_schedule_mode(mode) /\ UNCHANGED bot
    \/ recalculate /\ UNCHANGED bot

SpecTable == InitTable /\ [][NextTable]_vars

(***************************************************************************)
(* TrafficBot: the calls of the control plane.  They are made one at a     *)
(* time, and none is made while stop() waits in its join loop.             *)
(***************************************************************************)
sched == <<config, counters, markers, now, pending>>

\* a control call: the scheduler is not touched
Control ==
    /\ ~stopping
    /\ UNCHANGED <<sched, history>>

add_keyword(keyword) ==
    /\ Control
    /\ keywords' = IF keyword \in Range(keywords) THEN keywords
                   ELSE Append(keywords, keyword)
    /\ UNCHANGED <<urls, running, paused, worker_threads, task_queue, stats,
                   stopping, threads, botlog>>

add_url(url) ==
    /\ Control
    /\ urls' = IF url \in Range(urls) THEN urls ELSE Append(urls, url)
    /\ UNCHANGED <<keywords, running, paused, worker_threads, task_queue,
                   stats, stopping, threads, botlog>>

\* _queue_tasks: a Visit per URL, then a Search per keyword
SeedTasks ==
    [i \in 1 .. (Len(urls) + Len(keywords)) |->
        IF i <= Len(urls) THEN <<"visit", urls[i]>>
        ELSE <<"search", keywords[i - Len(urls)]>>]

\* the Search tasks that are queued or in the hands of a worker
LeftoverSearches ==
    Cardinality({i \in DOMAIN task_queue : task_queue[i][1] = "search"})
    + Cardinality({w \in DOMAIN task : task[w] # None /\ task[w][1][1] = "search"})

\* start() when self.running is False: the flags, the threads, the backlog
Started(num_workers) ==
    /\ starts_left > 0
    /\ num_workers <= spawns_left
    /\ running' = TRUE
    /\ paused' = FALSE
    /\ worker_threads' =
         worker_threads \o [i \in 1 .. num_workers |-> born + i]
    /\ pc' = [w \in Threads |->
                IF w \in (born + 1) .. (born + num_workers)
                THEN "check" ELSE pc[w]]
    /\ task_queue' = task_queue \o SeedTasks
    /\ enqueued' = enqueued + Len(urls) + Len(keywords)
    /\ starts_left' = starts_left - 1
    /\ spawns_left' = spawns_left - num_workers
    /\ resumed' = FALSE
    /\ born' = born + num_workers
    /\ seeded' = [base |-> enqueued, urls |-> Len(urls),
                  keywords |-> Len(keywords), searches |-> LeftoverSearches]
    /\ op' = <<"start", num_workers>>
    /\ UNCHANGED <<sched, ret, raised, snapshot, calls_left, user_targets,
                   bucket_recs, gate_seen, spent>>
    /\ UNCHANGED <<keywords, urls, stats, stopping, task, reg, results,
                   put_log, outcome, dequeued, links, visit, completed,
                   record_calls, visit_incs>>

start_unguarded(num_workers) ==
    /\ ~stopping
    /\ Started(num_workers)

start(num_workers) ==
    /\ ~stopping
    /\ IF running THEN UNCHANGED vars ELSE Started(num_workers)

\* pause() without its test of running and paused
pause_unguarded ==
    /\ Control
    /\ paused' = TRUE
    /\ resumed' = FALSE
    /\ UNCHANGED <<keywords, urls, running, worker_threads, task_queue, stats,
                   stopping, threads, put_log, outcome, enqueued, dequeued,
                   completed, record_calls, visit_incs, links, visit,
                   seeded, starts_left, spawns_left, born>>

pause ==
    /\ Control
    /\ paused' = IF ~running \/ paused THEN paused ELSE TRUE
    /\ resumed' = IF ~running \/ paused THEN resumed ELSE FALSE
    /\ UNCHANGED <<keywords, urls, running, worker_threads, task_queue, stats,
                   stopping, threads, put_log, outcome, enqueued, dequeued,
                   completed, record_calls, visit_incs, links, visit,
                   seeded, starts_left, spawns_left, born>>

resume ==
    /\ Control
    /\ paused' = IF ~running \/ ~paused THEN paused ELSE FALSE
    /\ resumed' = IF ~running \/ ~paused THEN resumed ELSE TRUE
    /\ UNCHANGED <<keywords, urls, running, worker_threads, task_queue, stats,
                   stopping, threads, put_log, outcome, enqueued, dequeued,
                   completed, record_calls, visit_incs, links, visit,
                   seeded, starts_left, spawns_left, born>>

\* stop() up to its join loop
stop ==
    /\ Control
    /\ IF ~running
       THEN UNCHANGED bot
       ELSE /\ running' = FALSE
            /\ paused' = FALSE
            /\ stopping' = TRUE
            /\ resumed' = FALSE
            /\ UNCHANGED <<keywords, urls, worker_threads, task_queue, stats,
                           threads, put_log, outcome, enqueued, dequeued,
                           completed, record_calls, visit_incs, links, visit,
                           seeded,
                           starts_left, spawns_left, born>>

\* the browser work of a search or a visit, which lasts longer than a join
InFlight == {"search_run", "visit_run"}

\* stop() returns: each join(timeout=2) has ended, because the thread has
\* ended or because it is inside the browser work of a task.  A thread at
\* the loop test or in get(timeout=1) moves on within the time of the join.
stop_return ==
    /\ stopping
    /\ \A i \in DOMAIN worker_threads :
           pc[worker_threads[i]] \in InFlight \cup {"exited"}
    /\ worker_threads' = << >>
    /\ stopping' = FALSE
    /\ UNCHANGED <<sched, history, keywords, urls, running, paused,
                   task_queue, stats, threads, botlog>>

(***************************************************************************)
(* TrafficBot.worker, one step of one thread at a time.  An augmented      *)
(* assignment (x += 1) is a load and a later store: nothing in the source  *)
(* makes it one step, so another thread may run in between.                *)
(***************************************************************************)
Goto(w, label) == pc' = [pc EXCEPT ![w] = label]

TaskType(w) == task[w][1][1]

\* the worker goes back to the loop test with no task in hand
Looped(w) ==
    /\ Goto(w, "check")
    /\ task' = [task EXCEPT ![w] = None]

\* while self.running and not self.paused
worker_check(w) ==
    /\ pc[w] = "check"
    /\ Goto(w, IF running /\ ~paused THEN "get" ELSE "exited")
    /\ UNCHANGED <<sched, history, pool, task, reg, results, botlog>>

\* what get() leaves in the queue: it removes the task it returns
DequeuedNone(q) == q

Dequeued(q) == Tail(q)

\* task = self.task_queue.get(timeout=1)
worker_get(w) ==
    /\ pc[w] = "get"
    /\ IF task_queue = << >>
       THEN /\ Goto(w, "check")
            /\ UNCHANGED <<task_queue, task, results, put_log, outcome,
                           dequeued>>
       ELSE /\ task_queue' = Dequeued(task_queue)
            /\ task' = [task EXCEPT ![w] = Some(Head(task_queue))]
            /\ dequeued' = dequeued + 1
            /\ results' = [results EXCEPT ![w] = << >>]
            /\ put_log' = [put_log EXCEPT ![w] = << >>]
            /\ outcome' = [outcome EXCEPT ![w] = "none"]
            /\ Goto(w, IF Head(task_queue)[1] = "search"
                       THEN "search_gate" ELSE "visit_gate")
    /\ UNCHANGED <<sched, history, keywords, urls, running, paused,
                   worker_threads, stats, stopping, reg, enqueued, runlog,
                   completed, record_calls, visit_incs>>

\* the visit counted before the gate is asked
worker_gate_counted(w) ==
    /\ pc[w] \in {"search_gate", "visit_gate"}
    /\ should_generate_traffic
    /\ stats' = [stats EXCEPT !.visits = Min(@ + 1, MaxVisits)]
    /\ IF ret' = "True"
       THEN /\ Goto(w, IF pc[w] = "search_gate" THEN "search_run"
                       ELSE "visits_load")
            /\ UNCHANGED <<task, outcome>>
       ELSE /\ Looped(w)
            /\ outcome' = [outcome EXCEPT ![w] = "rejected"]
    /\ UNCHANGED <<keywords, urls, running, paused, worker_threads,
                   task_queue, stopping, reg, results, put_log, enqueued,
                   dequeued, runlog, completed, record_calls, visit_incs>>

\* search_google and visit_url begin with check_schedule
worker_gate(w) ==
    /\ pc[w] \in {"search_gate", "visit_gate"}
    /\ should_generate_traffic
    /\ IF ret' = "True"
       THEN /\ Goto(w, IF pc[w] = "search_gate" THEN "search_run"
                       ELSE "visits_load")
            /\ UNCHANGED <<task, outcome>>
       ELSE /\ Looped(w)
            /\ outcome' = [outcome EXCEPT ![w] = "rejected"]
    /\ UNCHANGED <<pool, reg, results, put_log, enqueued, dequeued,
                   runlog, completed, record_calls, visit_incs>>

\* BrowserManager.close_driver is not in the source given; Close(session) of
\* the specification's interface reports no error: the call returns
close_driver_returns == TRUE

\* the list a failed search returning the links it has collected
FailedResultsKept(found) == found

\* the list search_google returns when it has failed: results is still the
\* empty list of line 106 when no driver is obtained (line 134) and at every
\* statement before the loop of lines 164-170 that can raise; after the loop
\* only close_driver (line 173) could
FailedResults(found) == IF close_driver_returns THEN << >> ELSE found

\* the body of search_google: the links found, or no driver or an exception
search_run(w) ==
    /\ pc[w] = "search_run"
    /\ \/ /\ results' = [results EXCEPT ![w] = links]
          /\ outcome' = [outcome EXCEPT ![w] = "ok"]
          /\ completed' = completed + 1
          /\ Goto(w, "record_hourly")
          /\ UNCHANGED pending
       \/ /\ results' = [results EXCEPT ![w] = FailedResults(links)]
          /\ outcome' = [outcome EXCEPT ![w] = "failed"]
          /\ pending' = Max(pending - 1, 0)
          /\ Goto(w, "search_put")
          /\ UNCHANGED completed
    /\ UNCHANGED <<config, counters, markers, now, history, pool, task, reg,
                   put_log, enqueued, dequeued, runlog,
                   record_calls, visit_incs>>

\* how many of the links found are enqueued: results[:3]
PutCountAll(found) == Len(found)

PutCount(found) == Min(Len(found), TopResults)

\* for url in results[:3]: self.task_queue.put(...), then task_done()
search_put(w) ==
    /\ pc[w] = "search_put"
    /\ IF Len(put_log[w]) < PutCount(results[w])
       THEN LET url == results[w][Len(put_log[w]) + 1] IN
            /\ task_queue' = Append(task_queue, <<"visit", url>>)
            /\ enqueued' = enqueued + 1
            /\ UNCHANGED dequeued
            /\ put_log' = [put_log EXCEPT ![w] = Append(@, url)]
            /\ UNCHANGED <<pc, task>>
       ELSE /\ Looped(w)
            /\ UNCHANGED <<task_queue, enqueued, dequeued, put_log>>
    /\ UNCHANGED <<sched, history, keywords, urls, running, paused,
                   worker_threads, stats, stopping, reg, results, outcome,
                   runlog, completed, record_calls, visit_incs>>

\* a step of a thread that touches only self.stats and its own registers
StatsStep ==
    UNCHANGED <<sched, history, keywords, urls, running, paused,
                worker_threads, task_queue, stopping, results, put_log,
                enqueued, dequeued, runlog, completed,
                record_calls>>

\* self.stats["visits"] += 1: the load
visits_load(w) ==
    /\ pc[w] = "visits_load"
    /\ reg' = [reg EXCEPT ![w] = stats.visits]
    /\ Goto(w, "visits_store")
    /\ StatsStep
    /\ UNCHANGED <<stats, task, outcome, visit_incs>>

\* self.stats["visits"] += 1: the store
visits_store(w) ==
    /\ pc[w] = "visits_store"
    /\ stats' = [stats EXCEPT !.visits = reg[w] + 1]
    /\ visit_incs' = visit_incs + 1
    /\ Goto(w, "visit_run")
    /\ StatsStep
    /\ UNCHANGED <<reg, task, outcome>>

\* the body of visit_url: the visit completes, or there is no driver, the
\* page does not load or an exception is raised
visit_run(w) ==
    /\ pc[w] = "visit_run"
    /\ \/ /\ outcome' = [outcome EXCEPT ![w] = "ok"]
          /\ completed' = completed + 1
          /\ Goto(w, "successful_load")
          /\ UNCHANGED pending
       \/ /\ outcome' = [outcome EXCEPT ![w] = "failed"]
          /\ pending' = Max(pending - 1, 0)
          /\ Goto(w, "failed_load")
          /\ UNCHANGED completed
    /\ UNCHANGED <<config, counters, markers, now, history, pool, task, reg,
                   results, put_log, enqueued, dequeued, runlog,
                   record_calls, visit_incs>>

\* self.stats["successful_visits"] += 1 and self.stats["failed_visits"] += 1
outcome_load(w) ==
    /\ pc[w] \in {"successful_load", "failed_load"}
    /\ reg' = [reg EXCEPT ![w] = IF pc[w] = "successful_load"
                                 THEN stats.successful_visits
                                 ELSE stats.failed_visits]
    /\ Goto(w, IF pc[w] = "successful_load" THEN "successful_store"
               ELSE "failed_store")
    /\ StatsStep
    /\ UNCHANGED <<stats, task, outcome, visit_incs>>

outcome_store(w) ==
    /\ pc[w] \in {"successful_store", "failed_store"}
    /\ IF pc[w] = "successful_store"
       THEN /\ stats' = [stats EXCEPT !.successful_visits = reg[w] + 1]
            /\ Goto(w, "record_hourly")
            /\ UNCHANGED task
       ELSE /\ stats' = [stats EXCEPT !.failed_visits = reg[w] + 1]
            /\ Looped(w)
    /\ StatsStep
    /\ UNCHANGED <<reg, outcome, visit_incs>>

\* a step of a thread inside TrafficScheduler.record_visit
RecordStep ==
    UNCHANGED <<config, markers, now, op, ret, raised, snapshot, calls_left,
                user_targets, gate_seen, pool, results, put_log, outcome,
                enqueued, dequeued, runlog, completed, visit_incs>>

\* self.hourly_visits += 1 ... self.total_visits += 1, as the loads and
\* stores they are; a store and the load of the next line are one step
record_hourly(w) ==
    /\ pc[w] = "record_hourly"
    /\ reg' = [reg EXCEPT ![w] = hourly_visits]
    /\ Goto(w, "record_daily")
    /\ RecordStep
    /\ UNCHANGED <<counters, pending, bucket_recs, spent, task, record_calls>>

record_daily(w) ==
    /\ pc[w] = "record_daily"
    /\ hourly_visits' = reg[w] + 1
    /\ spent' = (spent \/ (/\ Key(now) \in DOMAIN hourly_targets
                           /\ reg[w] + 1 >= hourly_targets[Key(now)]))
    /\ reg' = [reg EXCEPT ![w] = daily_visits]
    /\ Goto(w, "record_monthly")
    /\ RecordStep
    /\ UNCHANGED <<daily_visits, monthly_visits, total_visits, pending,
                   bucket_recs, task, record_calls>>

record_monthly(w) ==
    /\ pc[w] = "record_monthly"
    /\ daily_visits' = reg[w] + 1
    /\ reg' = [reg EXCEPT ![w] = monthly_visits]
    /\ Goto(w, "record_total")
    /\ RecordStep
    /\ UNCHANGED <<hourly_visits, monthly_visits, total_visits, pending,
                   bucket_recs, spent, task, record_calls>>

record_total(w) ==
    /\ pc[w] = "record_total"
    /\ monthly_visits' = reg[w] + 1
    /\ reg' = [reg EXCEPT ![w] = total_visits]
    /\ Goto(w, "record_return")
    /\ RecordStep
    /\ UNCHANGED <<hourly_visits, daily_visits, total_visits, pending,
                   bucket_recs, spent, task, record_calls>>

\* the last store; record_visit returns to search_google or to visit_url
record_return(w) ==
    /\ pc[w] = "record_return"
    /\ total_visits' = reg[w] + 1
    /\ record_calls' = record_calls + 1
    /\ bucket_recs' = bucket_recs + 1
    /\ pending' = Max(pending - 1, 0)
    /\ IF TaskType(w) = "search"
       THEN Goto(w, "search_put") /\ UNCHANGED task
       ELSE Looped(w)
    /\ RecordStep
    /\ UNCHANGED <<hourly_visits, daily_visits, monthly_visits, spent, reg>>

\* the pool: the control plane, the worker threads, and one hourly target
\* given to the scheduler so that the gate can reject
WorkerStep(w) ==
    \/ worker_check(w)
    \/ worker_get(w)
    \/ worker_gate(w)
    \/ search_run(w)
    \/ search_put(w)
    \/ visits_load(w)
    \/ visits_store(w)
    \/ visit_run(w)
    \/ outcome_load(w)
    \/ outcome_store(w)
    \/ record_hourly(w)
    \/ record_daily(w)
    \/ record_monthly(w)
    \/ record_total(w)
    \/ record_return(w)

NextBot ==
    \/ \E v \in 1 .. MaxTarget : set_target("hourly", v) /\ UNCHANGED bot
    \/ \E keyword \in KeywordNames : add_keyword(keyword)
    \/ \E url \in UrlNames : add_url(url)
    \/ \E n \in 0 .. MaxThreads : start(n)
    \/ pause
    \/ resume
    \/ stop
    \/ stop_return
    \/ \E w \in Threads : WorkerStep(w)

\* two threads started once; a results page holds one link or none
InitBot == Created(1) /\ BotCreated(1, MaxThreads, {<< >>, <<"r1">>})

SpecBot == InitBot /\ [][NextBot]_vars

(***************************************************************************)
(* Properties of should_generate_traffic and record_visit.                 *)
(***************************************************************************)
GateCalled == op[1] = "should_generate_traffic"

\* now lies outside [start, end], or its hour or weekday is not active
OutsideCampaign ==
    \/ start_date # None /\ now < start_date[1]
    \/ end_date # None /\ now > end_date[1]
    \/ \A i \in DOMAIN active_hours : active_hours[i] # Hour(now)
    \/ Weekday(Day(now)) \notin active_days

\* C1: a call of should_generate_traffic made when now is before start or
\* after end, or in an hour or on a weekday that is not active, returns
\* False, whatever the counters and the table hold.
C1_RejectsOutsideCampaign == (GateCalled /\ OutsideCampaign) => ret = "False"

\* a call rejected after the end of the campaign although visits had been
\* recorded and the quota of the bucket was not reached
C1_Witness ==
    /\ GateCalled
    /\ end_date # None /\ now > end_date[1]
    /\ hourly_visits > 0
    /\ ~QuotaReached(now)
    /\ ret = "False"

\* C2: once at least as many record_visit calls as the table's target of a
\* bucket have been made while the clock was in that bucket, every call of
\* should_generate_traffic made in the bucket returns False.
C2_QuotaEnforced ==
    (/\ GateCalled
     /\ Key(now) \in DOMAIN hourly_targets
     /\ bucket_recs >= hourly_targets[Key(now)]) => ret = "False"

\* the rollover bookkeeping of a call made at now, between two states
RolledOver ==
    /\ last_hour' = Some(Hour(now))
    /\ last_day' = Some(DayOfMonth(Day(now)))
    /\ last_month' = Some(Month(Day(now)))
    /\ (last_hour # Some(Hour(now)) => hourly_visits' = 0)
    /\ (last_day # Some(DayOfMonth(Day(now))) => daily_visits' = 0)
    /\ (last_month # Some(Month(Day(now))) => monthly_visits' = 0)

\* C3: every call of should_generate_traffic, one that returns False
\* included, leaves the three markers at the current hour, day and month
\* and has reset each counter whose marker differed.
C3_RolloverOnEveryCall ==
    [][op'[1] = "should_generate_traffic" => RolledOver]_vars

\* C4: after the clock has moved into another bucket, hourly_visits is reset
\* to 0 by the first call of should_generate_traffic made in the new bucket,
\* and by no later call made in it.
C4_ResetOncePerBucket ==
    [][op'[1] = "should_generate_traffic" =>
          /\ (now > 0 /\ gate_seen = "none" => hourly_visits' = 0)
          /\ (gate_seen # "none" => hourly_visits' = hourly_visits)]_vars

\* the bucket of instant t lies in the campaign, is active and has a target
\* above 0; an earlier bucket's quota was used up, nothing was recorded in
\* this one and no call made in it has returned True yet
BlockedBySpentQuota(t) ==
    /\ now = t
    /\ spent /\ bucket_recs = 0 /\ gate_seen # "permitted"
    /\ ~OutsideCampaign
    /\ Key(t) \in DOMAIN hourly_targets /\ hourly_targets[Key(t)] > 0

\* C5: when hourly_visits reached the target of a bucket and the clock has
\* moved on into a later bucket that lies in the campaign, is active and has
\* a target above 0, repeated calls of should_generate_traffic in the new
\* bucket eventually return True (unless the clock leaves the bucket or the
\* bucket stops being such a bucket first).
C5_LaterBucketPermits ==
    \A t \in Instants :
        BlockedBySpentQuota(t) ~> (gate_seen = "permitted" \/ ~BlockedBySpentQuota(t))

\* C6: with all four targets 0, a call of should_generate_traffic made
\* inside the campaign, in an active hour of an active weekday, returns True.
C6_NoQuotaWithoutTargets ==
    (/\ GateCalled
     /\ \A p \in Periods : target_visits[p] = 0
     /\ ~OutsideCampaign) => ret = "True"

\* the gate is called again and again (by every worker, for every task)
LiveSpec == Spec /\ WF_vars(should_generate_traffic /\ UNCHANGED bot)

(***************************************************************************)
(* Properties of the setters and of calculate_schedule.                    *)
(***************************************************************************)
PriorityOrder == <<"monthly", "total", "daily", "hourly">>

\* the first period, in priority order, for which the user gave a target
UserAuthority ==
    IF \A i \in 1 .. 4 : user_targets[PriorityOrder[i]] = 0 THEN "none"
    ELSE PriorityOrder[CHOOSE i \in 1 .. 4 :
                          /\ user_targets[PriorityOrder[i]] # 0
                          /\ \A j \in 1 .. (i - 1) : user_targets[PriorityOrder[j]] = 0]

\* the last call ran calculate_schedule to its end
RanCalc ==
    /\ ~raised
    /\ \/ op[1] \in {"set_time_range", "set_active_hours", "set_active_days",
                     "calculate_schedule"}
       \/ op[1] = "set_target" /\ op[2] \in Periods
       \/ op[1] = "set_schedule_mode" /\ op[2] \in ValidModes

\* the user gave no negative target, and the campaign has an active day and
\* an active hour, so that every quotient below is defined
Derivable ==
    /\ \A p \in Periods : user_targets[p] >= 0
    /\ start_date # None /\ end_date # None
    /\ ActiveDaysCount(start_date[1], end_date[1], active_days) > 0
    /\ Len(active_hours) > 0

\* target p is v and the other targets are the stated derivations from v
DerivedFrom(p, v) ==
    LET adc == ActiveDaysCount(start_date[1], end_date[1], active_days)
        ahc == Len(active_hours)
    IN  CASE p = "monthly" -> /\ target_visits["monthly"] = v
                              /\ target_visits["daily"] = Ceil(v, adc)
                              /\ target_visits["hourly"] = Ceil(v, adc * ahc)
                              /\ target_visits["total"] = v
          [] p = "total"   -> target_visits["total"] = v
          [] p = "daily"   -> /\ target_visits["daily"] = v
                              /\ target_visits["hourly"] = Ceil(v, ahc)
                              /\ target_visits["total"] = v * adc
          [] p = "hourly"  -> /\ target_visits["hourly"] = v
                              /\ target_visits["daily"] = v * ahc
                              /\ target_visits["total"] = v * adc * ahc

\* C7: after any sequence of set_target calls and recalculations the first
\* non-zero target the user gave, in the order monthly, total, daily, hourly,
\* is authoritative: it keeps the user's value and the other targets are
\* its derivations.
C7_OneAuthoritativeTarget ==
    (RanCalc /\ Derivable /\ UserAuthority # "none")
        => DerivedFrom(UserAuthority, user_targets[UserAuthority])

\* C8: set_target(p, v) with v > 0, when the user has given no target of a
\* higher priority than p, returns with target p equal to v and the other
\* targets derived from v, also when p was set before.
C8_SetTargetTakesEffect ==
    (/\ op[1] = "set_target" /\ op[2] \in Periods /\ op[3] > 0
     /\ RanCalc /\ Derivable
     /\ UserAuthority = op[2]) => DerivedFrom(op[2], op[3])

\* C9: in the modes even, frontloaded and backloaded a second call of
\* calculate_schedule, with no setter call after the first, leaves the four
\* targets and the hourly target table as the first call left them.
C9_RecalculationIdempotent ==
    [][(/\ RanCalc
        /\ schedule_mode \in {"even", "frontloaded", "backloaded"}
        /\ op'[1] = "calculate_schedule" /\ ~raised')
          => (target_visits' = target_visits /\ hourly_targets' = hourly_targets)]_vars

\* an empty list of hours or days, a negative target, an end before the start
InvalidCall(call) ==
    \/ call[1] = "set_active_hours" /\ call[2] = << >>
    \/ call[1] = "set_active_days" /\ call[2] = {}
    \/ call[1] = "set_target" /\ call[3] < 0
    \/ call[1] = "set_time_range" /\ call[3] < call[2]

\* C10: a setter given invalid input fails with an error and leaves every
\* field of the configuration as it was.
C10_InvalidInputRejected ==
    [][InvalidCall(op') => (raised' /\ config' = config)]_vars

(***************************************************************************)
(* Properties of the pool: pause, resume, stop and the worker loops.       *)
(***************************************************************************)
\* thread w is handed a task by get() and calls search_google or visit_url
Begins(w) == pc[w] = "get" /\ pc'[w] \in {"search_gate", "visit_gate"}

\* C11: from the return of pause() to the next resume() (paused is True all
\* that time) no worker begins to execute a task, whatever the interleaving
\* of pause() with the worker loops.
C11_NoTaskBeginsWhilePaused ==
    [][\A w \in Threads : Begins(w) => ~paused]_vars

\* one thread started once; the worker threads run whenever they can take a
\* step
LiveBot ==
    /\ Created(1) /\ BotCreated(1, 1, {<< >>})
    /\ [][NextBot]_vars
    /\ \A w \in Threads : WF_vars(WorkerStep(w))

\* C12: after pause() and then resume(), with no stop() or start() since,
\* the tasks that wait in the queue are eventually all dequeued by the
\* workers that start() spawned (or a later pause() or stop() takes effect).
C12_ResumeDrainsQueue ==
    (resumed /\ worker_threads # << >> /\ task_queue # << >>)
        ~> (task_queue = << >> \/ ~resumed)

\* one thread, and the pool stopped and started again
InitRestart == Created(1) /\ BotCreated(MaxStarts, 1, {<< >>})

SpecRestart == InitRestart /\ [][NextBot]_vars

\* C13: once stop() has returned, and until the pool is started again
\* (running is False and no stop() is in its join loop), no worker dequeues
\* a task and begins to execute it.
C13_NoTaskBeginsAfterStop ==
    [][\A w \in Threads : Begins(w) => (running \/ stopping)]_vars

\* C14: a worker loop ends only when the pool is Stopped: at the step in
\* which a thread leaves worker(), running is False.  (A failed task sends
\* the thread back to the loop test: search_put and outcome_store.)
C14_LoopEndsOnlyWhenStopped ==
    [][\A w \in Threads :
          (pc[w] # "exited" /\ pc'[w] = "exited") => ~running]_vars

(***************************************************************************)
(* Properties of start and of the queue.                                   *)
(***************************************************************************)
\* what a worker that is enqueuing the results of its search may put next
ResultPuts ==
    {<<"visit", results[w][i]>> : w \in {t \in Threads : pc[t] = "search_put"},
                                  i \in 1 .. TopResults}

Backlog ==
    [i \in 1 .. Len(urls) |-> <<"visit", urls[i]>>]
        \o [i \in 1 .. Len(keywords) |-> <<"search", keywords[i]>>]

\* C15: a step that spawns a thread or enqueues a task of the backlog is a
\* start(n) made while the pool is stopped; it sets running and clears
\* paused, spawns exactly n worker loops and enqueues a Visit per URL and
\* then a Search per keyword.  In every other step, a start(n) made while
\* running included, no thread is spawned and the queue only loses its head
\* or gains a result of a search.
C15_StartSpawnsAndSeedsOnce ==
    [][IF starts_left' # starts_left
       THEN /\ ~running /\ running' /\ ~paused'
            /\ op'[1] = "start"
            /\ born' = born + op'[2]
            /\ worker_threads' =
                 worker_threads \o [i \in 1 .. op'[2] |-> born + i]
            /\ \A w \in Threads :
                   pc'[w] = IF born < w /\ w <= born' THEN "check" ELSE pc[w]
            /\ task_queue' = task_queue \o Backlog
            /\ stats' = stats
       ELSE /\ born' = born
            /\ \A w \in Threads : pc[w] = "unborn" => pc'[w] = "unborn"
            /\ \/ task_queue' = task_queue
               \/ task_queue # << >> /\ task_queue' = Tail(task_queue)
               \/ \E t \in ResultPuts : task_queue' = Append(task_queue, t)
      ]_vars

\* the pool was stopped and started again with a worker, one URL and one
\* keyword while the task of the first run was still in the queue
C15_Witness ==
    /\ op = <<"start", 1>>
    /\ starts_left = 0
    /\ running
    /\ pc[1] = "check"
    /\ Len(task_queue) > 2
    /\ SubSeq(task_queue, Len(task_queue) - 1, Len(task_queue))
           = <<<<"visit", "u1">>, <<"search", "k1">>>>

\* one thread started once; a results page holds no link, two links or five
InitSearch == Created(1) /\ BotCreated(1, 1, SearchResults)

SpecSearch == InitSearch /\ [][NextBot]_vars

\* thread w has finished a task that went well (after a visit results[w]
\* and put_log[w] are both empty)
Finished(w) == task[w] = None /\ outcome[w] = "ok"

\* C16: when a search that succeeded with k links has finished, its worker
\* has enqueued the Visit tasks of the first min(k, 3) links, in the order
\* of the results, and no other.
C16_TopThreeResultsEnqueued ==
    \A w \in Threads :
        Finished(w) =>
            LET k == Len(results[w]) IN
            /\ Len(put_log[w]) = IF k < 3 THEN k ELSE 3
            /\ \A i \in 1 .. Len(put_log[w]) : put_log[w][i] = results[w][i]

\* one keyword, no URL, a search that found five links: three Visit tasks
\* are in the queue when the search task is done
C16_Witness ==
    /\ keywords = <<"k1">> /\ urls = << >>
    /\ Finished(1) /\ Len(results[1]) = 5
    /\ task_queue = <<<<"visit", "r1">>, <<"visit", "r2">>, <<"visit", "r3">>>>
    /\ enqueued = 4

\* C17: the task get() hands to a worker is the head of the queue and
\* leaves the queue in that step, so that no other worker is handed it and
\* it is executed once; and when a worker lets go of its task, whether the
\* task went well, failed or was rejected, nothing is put back.
C17_TaskConsumedOnce ==
    [][\A w \in Threads :
          /\ Begins(w) => /\ task_queue # << >>
                          /\ task'[w] = Some(Head(task_queue))
                          /\ task_queue' = Tail(task_queue)
                          /\ \A v \in Threads \ {w} : task'[v] = task[v]
          /\ (task[w] # None /\ task'[w] = None) => task_queue' = task_queue
      ]_vars

\* two workers each hold a task of their own, and a task has failed before
C17_Witness ==
    /\ task[1] # None /\ task[2] # None /\ task[1] # task[2]
    /\ dequeued = 3 /\ enqueued = 3
    /\ stats.failed_visits = 1

(***************************************************************************)
(* Properties of the counters shared by the worker threads.                *)
(***************************************************************************)
RecordLabels == {"record_hourly", "record_daily", "record_monthly",
                 "record_total", "record_return"}

\* C18: when no thread is inside record_visit, each of the four counters
\* has grown by one for every record_visit call made, whatever the
\* interleaving of the calls (the clock stands still: no rollover).
C18_RecordVisitAtomic ==
    (\A w \in Threads : pc[w] \notin RecordLabels) =>
        /\ hourly_visits = record_calls
        /\ daily_visits = record_calls
        /\ monthly_visits = record_calls
        /\ total_visits = record_calls

\* C19: when no worker has a task in hand, total_visits is the number of
\* searches and visits that completed successfully: record_visit was called
\* once for each of them and for no rejected or failed task.
C19_OneRecordPerCompletedTask ==
    (\A w \in Threads : task[w] = None) => total_visits = completed

\* C20: when no thread is inside the statement stats["visits"] += 1, the
\* counter has grown by one for every execution of the statement.
C20_StatsIncrementsNotLost ==
    (\A w \in Threads : pc[w] # "visits_store") => stats.visits = visit_incs

(***************************************************************************)
(* Properties of the table calculate_schedule builds, and of get_stats.    *)
(***************************************************************************)
\* C21: a call of should_generate_traffic made inside the campaign, in an
\* active hour of an active weekday, returns True when the bucket of now has
\* a table target and fewer record_visit calls than that target were made
\* while the clock was in the bucket.
C21_PermitsBelowQuota ==
    (/\ GateCalled
     /\ ~OutsideCampaign
     /\ Key(now) \in DOMAIN hourly_targets
     /\ bucket_recs < hourly_targets[Key(now)]) => ret = "True"

\* C24: get_stats changes no field of the scheduler, and each progress
\* percentage it returns is in 0 .. 100, 100 when the counter is above its
\* target and 0 when the target is 0.
C24_GetStatsReadOnly ==
    [][op'[1] = "get_stats" =>
          /\ UNCHANGED <<config, counters, markers>>
          /\ \A p \in Periods :
                /\ snapshot'[1].progress[p] \in 0 .. Percent
                /\ (snapshot'[1].current[p] > snapshot'[1].targets[p]
                    /\ snapshot'[1].targets[p] > 0
                       => snapshot'[1].progress[p] = Percent)
                /\ (snapshot'[1].targets[p] = 0 => snapshot'[1].progress[p] = 0)]_vars

\* get_stats has reported 100 for a counter above its target, 0 for a target
\* of 0 and a percentage strictly between for another period
C24_Witness ==
    /\ op[1] = "get_stats"
    /\ \E p \in Periods : /\ snapshot[1].current[p] > snapshot[1].targets[p]
                          /\ snapshot[1].targets[p] > 0
                          /\ snapshot[1].progress[p] = Percent
    /\ \E p \in Periods : /\ snapshot[1].progress[p] > 0
                          /\ snapshot[1].progress[p] < Percent

\* the buckets of the campaign: the dates from the date of start on, one per
\* whole day of the campaign, that fall on an active weekday, and on each
\* the active hours
ActiveBuckets ==
    {<<d, h>> : d \in {x \in Day(start_date[1]) ..
                              (Day(start_date[1])
                               + TotalDays(start_date[1], end_date[1]) - 1) :
                         Weekday(x) \in active_days},
                h \in Range(active_hours)}

\* the sum of the targets of the buckets in keys
RECURSIVE TargetSum(_)
TargetSum(keys) ==
    IF keys = {} THEN 0
    ELSE LET k == CHOOSE x \in keys : TRUE
         IN  hourly_targets[k] + TargetSum(keys \ {k})

\* C22: in mode even, when calculate_schedule has run, the table holds the
\* buckets of the campaign, each with the hourly target, and the sum of all
\* bucket targets is the hourly target times the number of buckets.
C22_EvenTableUniform ==
    (RanCalc /\ schedule_mode = "even") =>
        /\ DOMAIN hourly_targets = ActiveBuckets
        /\ \A k \in DOMAIN hourly_targets :
              hourly_targets[k] = target_visits["hourly"]
        /\ TargetSum(DOMAIN hourly_targets)
              = target_visits["hourly"] * Cardinality(ActiveBuckets)

\* a target set in mode even on a campaign of two days with two active
\* hours, the later hour listed first: four buckets of 2 each
C22_Witness ==
    /\ RanCalc /\ schedule_mode = "even"
    /\ op[1] = "set_target"
    /\ active_hours = <<1, 0>>
    /\ Cardinality(ActiveBuckets) = 4
    /\ target_visits["hourly"] = 2
    /\ TargetSum(DOMAIN hourly_targets) = 8

\* bucket j comes before bucket k
Earlier(j, k) == j[1] < k[1] \/ (j[1] = k[1] /\ j[2] < k[2])

\* C23: when calculate_schedule has run and the table has more than one
\* bucket, the targets never increase from a bucket to a later one in mode
\* frontloaded and never decrease in mode backloaded, in whatever order
\* active_hours lists its hours.
C23_WeightedTableMonotone ==
    (RanCalc /\ Cardinality(DOMAIN hourly_targets) > 1) =>
        \A j \in DOMAIN hourly_targets, k \in DOMAIN hourly_targets :
            Earlier(j, k) =>
               /\ (schedule_mode = "frontloaded"
                      => hourly_targets[j] >= hourly_targets[k])
               /\ (schedule_mode = "backloaded"
                      => hourly_targets[j] <= hourly_targets[k])

\* instant t lies in [start, end], in an active hour of an active weekday
InCampaign(t) ==
    /\ start_date[1] <= t /\ t <= end_date[1]
    /\ Hour(t) \in Range(active_hours)
    /\ Weekday(Day(t)) \in active_days

\* C25: when calculate_schedule has run, in every mode, the bucket of every
\* instant of the campaign that falls in an active hour of an active
\* weekday has an entry in the hourly target table, whatever the times of
\* day of start and end are.
C25_TableCoversCampaign ==
    RanCalc => \A t \in Instants : InCampaign(t) => Key(t) \in DOMAIN hourly_targets

Setters == {"set_target", "set_time_range", "set_active_hours",
            "set_active_days", "set_schedule_mode"}

\* bucket k belongs to the current configuration
CurrentBucket(k) ==
    /\ k[2] \in Range(active_hours)
    /\ Weekday(k[1]) \in active_days
    /\ (start_date # None => Day(start_date[1]) <= k[1])
    /\ (end_date # None => k[1] <= Day(end_date[1]))

\* C26: when a setter has returned or raised, every key of the hourly target
\* table is a bucket of the current configuration (active hour, active
\* weekday, date in the window), and once a schedule was calculated the
\* table is one that the current targets, window and mode produce.
C26_TableMatchesConfiguration ==
    op[1] \in Setters =>
        /\ \A k \in DOMAIN hourly_targets : CurrentBucket(k)
        /\ (start_date # None /\ end_date # None =>
               hourly_targets \in Tables(target_visits, start_date[1], end_date[1],
                                         active_hours, active_days, schedule_mode))

\* the dates of the campaign that fall on an active weekday
ActiveDates == {k[1] : k \in ActiveBuckets}

\* the sum of the targets of the buckets of date d
DayTarget(d) == TargetSum({k \in DOMAIN hourly_targets : k[1] = d})

BucketWeight(k) ==
    Weight(schedule_mode, Cardinality(ActiveBuckets), k[1] - Day(start_date[1]), k[2])

CalcCalled ==
    \/ op[1] \in {"set_time_range", "set_active_hours", "set_active_days",
                  "calculate_schedule"}
    \/ op[1] = "set_target" /\ op[2] \in Periods
    \/ op[1] = "set_schedule_mode" /\ op[2] \in ValidModes

\* C29: calculate_schedule ends without an error, whichever target is the
\* authoritative one, on a campaign with start <= end and non-empty active
\* hours and days in which no day falls on an active weekday, and on a
\* campaign shorter than one day.
C29_ToleratesNoActiveDay ==
    (/\ CalcCalled
     /\ start_date[1] <= end_date[1]
     /\ active_hours # << >> /\ active_days # {}
     /\ \/ ActiveDaysCount(start_date[1], end_date[1], active_days) = 0
        \/ end_date[1] - start_date[1] < HoursPerDay) => ~raised

\* a call of set_schedule_mode with an unknown mode or of set_target with
\* an unknown period
Unknown(call) ==
    \/ call[1] = "set_schedule_mode" /\ call[2] \notin ValidModes
    \/ call[1] = "set_target" /\ call[2] \notin Periods

\* C30: set_schedule_mode with a mode other than even, random, frontloaded
\* and backloaded, and set_target with a period other than hourly, daily,
\* monthly and total, leave the mode, the targets, the window, the active
\* hours and days and the table as they were (so no recalculation has run).
C30_UnknownNameIgnored ==
    [][Unknown(op') => UNCHANGED config]_vars

\* set_target was given an unknown period when the hourly target 1 stood
\* with the monthly target 720 derived from it, which a recalculation would
\* have taken as the authority
C30_Witness ==
    /\ op[1] = "set_target" /\ op[2] \notin Periods
    /\ start_date # None
    /\ target_visits["hourly"] = 1
    /\ target_visits["monthly"] = 720

(***************************************************************************)
(* The scheduler under an advancing clock, with a first calculation and a  *)
(* recalculation after it; set_time_range is never called, so the window   *)
(* is the defaulted one.                                                   *)
(***************************************************************************)
InitClock == Created(2) /\ BotCreated(0, 0, {<< >>})

NextClock ==
    \/ \E v \in 1 .. MaxTarget : set_target("hourly", v) /\ UNCHANGED bot
    \/ \E hours \in HourLists : set_active_hours(hours) /\ UNCHANGED bot
    \/ \E days \in DaySets : set_active_days(days) /\ UNCHANGED bot
    \/ \E mode \in ModeNames : set_schedule_mode(mode) /\ UNCHANGED bot
    \/ recalculate /\ UNCHANGED bot
    \/ should_generate_traffic /\ UNCHANGED bot
    \/ record_visit /\ UNCHANGED bot
    \/ get_stats /\ UNCHANGED bot
    \/ Tick /\ UNCHANGED bot

SpecClock == InitClock /\ [][NextClock]_vars

(***************************************************************************)
(* Properties of the campaign window.                                      *)
(***************************************************************************)
\* C31: the step that first gives the unset start and end a value without
\* set_time_range gives them now and the last hour of the month of now; in
\* every later step other than set_time_range (a gate call, record_visit,
\* get_stats, a recalculation after any setter, a move of the clock) start
\* and end stay as they are.
C31_DefaultsComputedOnce ==
    [][/\ (start_date = None /\ start_date' # None /\ op'[1] # "set_time_range")
            => (start_date' = Some(now) /\ end_date' = Some(EndOfMonth(now)))
       /\ (start_date # None /\ op'[1] # "set_time_range")
            => (start_date' = start_date /\ end_date' = end_date)
      ]_vars

\* the window was defaulted at 01:00 on Monday, the clock has moved to
\* Tuesday, and a setter has recalculated the schedule there
C31_Witness ==
    /\ start_date = Some(1)
    /\ end_date = Some(EndOfMonth(1))
    /\ now = HoursPerDay
    /\ calls_left = 0
    /\ op[1] \in {"set_target", "set_active_hours", "set_active_days",
                  "set_schedule_mode"}
    /\ hourly_targets # << >>

(***************************************************************************)
(* Properties of visit_url and search_google.                              *)
(***************************************************************************)
\* thread w is inside visit_url, between the gate and the statement that
\* counts the visit as successful or failed
VisitLabels == {"visits_load", "visits_store", "visit_run", "successful_load",
                "successful_store", "failed_load", "failed_store"}

\* C32: a visit_url call that has passed the gate adds one to stats.visits
\* and, before it returns, one to successful_visits or to failed_visits, so
\* that successful_visits + failed_visits never exceeds visits and equals
\* it whenever no thread is inside such a call.
C32_OutcomesWithinVisits ==
    /\ stats.successful_visits + stats.failed_visits <= stats.visits
    /\ (\A w \in Threads : pc[w] \notin VisitLabels) =>
           stats.successful_visits + stats.failed_visits = stats.visits

\* a step that puts a task on the queue
Enqueues == Len(task_queue') > Len(task_queue)

\* C33: a Search task that has failed (no browser session, or an exception)
\* or that the gate has rejected enqueues no Visit task: its worker has put
\* nothing on the queue for it, and every step that enqueues a task is the
\* seeding of start() or the put of a worker whose search has succeeded.
C33_FailedSearchEnqueuesNothing ==
    [][/\ \A w \in Threads :
              outcome[w] \in {"failed", "rejected"} => put_log[w] = << >>
       /\ Enqueues =>
              \/ starts_left' # starts_left
              \/ \E w \in Threads : /\ pc[w] = "search_put"
                                    /\ TaskType(w) = "search"
                                    /\ outcome[w] = "ok"
                                    /\ put_log'[w] # put_log[w]
      ]_vars

\* the only task of the run was a search on a results page of five links;
\* it failed, it is done, and the queue is empty
C33_Witness ==
    /\ keywords = <<"k1">> /\ urls = << >>
    /\ Len(links) = 5
    /\ enqueued = 1 /\ dequeued = 1
    /\ outcome[1] = "failed" /\ task[1] = None
    /\ task_queue = << >>

(***************************************************************************)
(* BehaviorProfile (src/modules/browser_manager.py): each draw is the set  *)
(* of the values it can return.  The weights in the source are all         *)
(* positive, so every listed value can be drawn.                           *)
(***************************************************************************)
\* self.max_subpage_visits
max_subpage_visits == 3

\* random.choices over self.device_types
get_random_device == {"desktop", "mobile", "tablet"}

\* random.choices over self.referrer_types, then over the search engines or
\* the social sources
get_random_referrer ==
    {"search_google", "search_bing", "search_yahoo", "search_duckduckgo",
     "social_facebook", "social_twitter", "social_instagram",
     "social_linkedin", "social_pinterest", "social_reddit",
     "direct", "referral"}

\* random.random() < self.bounce_rate, with the bounce rate 0.15
ShouldBounce == BOOLEAN

\* get_subpage_count: 0 when its own call of should_bounce() returns True,
\* else a draw over 1 .. max_subpage_visits
get_subpage_count ==
    UNION {IF b THEN {0} ELSE 1 .. max_subpage_visits : b \in ShouldBounce}

(***************************************************************************)
(* TrafficBot.visit_url, one call at a time made by one caller, from the   *)
(* gate to the return.  The choice of a VPN or a proxy and the CAPTCHA     *)
(* step change nothing that is modelled and are left out.                  *)
(***************************************************************************)
\* what a step of the call leaves alone
VisitFrame ==
    UNCHANGED <<keywords, urls, running, paused, worker_threads, task_queue,
                stopping, threads, put_log, outcome, enqueued, dequeued,
                links, seeded, starts_left, spawns_left, born, resumed,
                completed, record_calls, visit_incs>>

\* a step between the gate and the return that touches no counter
VisitInner == VisitFrame /\ UNCHANGED <<sched, history, stats, visit_ret>>

\* return False after self.stats["failed_visits"] += 1
VisitFailed ==
    /\ stats' = [stats EXCEPT !.failed_visits = @ + 1]
    /\ pending' = Max(pending - 1, 0)
    /\ visit_pc' = "returned"
    /\ visit_ret' = "False"
    /\ VisitFrame
    /\ UNCHANGED <<config, counters, markers, now, history>>

\* self.stats["successful_visits"] += 1, record_visit(), return True
VisitSucceeded ==
    /\ stats' = [stats EXCEPT !.successful_visits = @ + 1]
    /\ record_visit
    /\ visit_pc' = "returned"
    /\ visit_ret' = "True"
    /\ VisitFrame

\* lines 201-211: the gate, and the visit counted
visit_url ==
    /\ visit_pc \in {"idle", "returned"}
    /\ stats.visits < MaxVisits
    /\ should_generate_traffic
    /\ IF ret' = "True"
       THEN /\ stats' = [stats EXCEPT !.visits = @ + 1]
            /\ visit_pc' = "device"
            /\ visit_ret' = "none"
       ELSE /\ visit_pc' = "returned"
            /\ visit_ret' = "False"
            /\ UNCHANGED stats
    /\ device_type' = None
    /\ referrer_type' = None
    /\ should_bounce' = None
    /\ subpage_count' = None
    /\ subpage_i' = 0
    /\ VisitFrame

\* line 238
visit_device ==
    /\ visit_pc = "device"
    /\ \E d \in get_random_device : device_type' = Some(d)
    /\ visit_pc' = "driver"
    /\ UNCHANGED <<referrer_type, should_bounce, subpage_count, subpage_i>>
    /\ VisitInner

\* lines 249-252: a driver, or none
visit_driver ==
    /\ visit_pc = "driver"
    /\ \/ visit_pc' = "referrer" /\ VisitInner
       \/ VisitFailed
    /\ UNCHANGED <<device_type, referrer_type, should_bounce, subpage_count,
                   subpage_i>>

\* line 255
visit_referrer ==
    /\ visit_pc = "referrer"
    /\ \E r \in get_random_referrer : referrer_type' = Some(r)
    /\ visit_pc' = "load"
    /\ UNCHANGED <<device_type, should_bounce, subpage_count, subpage_i>>
    /\ VisitInner

\* lines 267-274: the page loads, or its title is empty or driver.get raises
visit_load ==
    /\ visit_pc = "load"
    /\ \/ visit_pc' = "bounce" /\ VisitInner
       \/ VisitFailed
    /\ UNCHANGED <<device_type, referrer_type, should_bounce, subpage_count,
                   subpage_i>>

\* lines 290-308: the bounce flag, and the bounce visit
visit_bounce ==
    /\ visit_pc = "bounce"
    /\ \E b \in ShouldBounce :
          /\ should_bounce' = Some(b)
          /\ IF b THEN VisitSucceeded
             ELSE visit_pc' = "subpages" /\ VisitInner
    /\ UNCHANGED <<device_type, referrer_type, subpage_count, subpage_i>>

\* lines 311-327: the subpage count, and the main page
visit_subpages ==
    /\ visit_pc = "subpages"
    /\ \E n \in get_subpage_count : subpage_count' = Some(n)
    /\ visit_pc' = "navigate"
    /\ UNCHANGED <<device_type, referrer_type, should_bounce, subpage_i>>
    /\ VisitInner

\* lines 330-358: one turn of the loop over the subpages; the click of a
\* link may raise, which the loop catches; _interact_with_page may raise,
\* which ends the visit as failed
visit_navigate ==
    /\ visit_pc = "navigate"
    /\ subpage_i < subpage_count[1]
    /\ \/ subpage_i' = subpage_i + 1 /\ UNCHANGED visit_pc /\ VisitInner
       \/ visit_pc' = "finish" /\ UNCHANGED subpage_i /\ VisitInner
       \/ VisitFailed /\ UNCHANGED subpage_i
    /\ UNCHANGED <<device_type, referrer_type, should_bounce, subpage_count>>

\* lines 361-368: the loop has ended or was left by break
visit_finish ==
    /\ \/ visit_pc = "finish"
       \/ visit_pc = "navigate" /\ subpage_i >= subpage_count[1]
    /\ VisitSucceeded
    /\ UNCHANGED <<device_type, referrer_type, should_bounce, subpage_count,
                   subpage_i>>

NextVisit ==
    \/ visit_url
    \/ visit_device
    \/ visit_driver
    \/ visit_referrer
    \/ visit_load
    \/ visit_bounce
    \/ visit_subpages
    \/ visit_navigate
    \/ visit_finish

InitVisit == Created(0) /\ BotCreated(0, 0, {<< >>})

SpecVisit == InitVisit /\ [][NextVisit]_vars

\* C34: the subpage count of a visit is an integer of 0 ..
\* max_subpage_visits, and when the bounce flag of the visit was drawn False
\* it is at least 1.
C34_SubpageCountOfFullVisit ==
    subpage_count # None =>
        /\ subpage_count[1] \in 0 .. max_subpage_visits
        /\ should_bounce = Some(FALSE) => subpage_count[1] >= 1

(***************************************************************************)
(* Properties of the states of the pool.                                   *)
(***************************************************************************)
Stopped == ~running /\ ~paused
Running == running /\ ~paused
Paused  == running /\ paused

\* C35: whatever start, stop, pause and resume calls have been made, the
\* pool is Stopped, Running or Paused (paused implies running); pause()
\* changes nothing unless the pool is Running, and then makes it Paused;
\* resume() changes nothing unless it is Paused, and then makes it Running;
\* stop() changes nothing when it is Stopped, and else makes it Stopped.
C35_ThreePoolStates ==
    [][/\ Stopped \/ Running \/ Paused
       /\ Stopped' \/ Running' \/ Paused'
       /\ pause  => IF Running THEN Paused' ELSE UNCHANGED vars
       /\ resume => IF Paused THEN Running' ELSE UNCHANGED vars
       /\ stop   => IF Stopped THEN UNCHANGED vars ELSE Stopped'
      ]_vars

\* the pool was started, stopped and started again, and is now Paused
C35_Witness ==
    /\ Paused
    /\ starts_left = 0
    /\ ~stopping

(***************************************************************************)
(* The pool started on a scheduler whose hourly target was set before:     *)
(* the state set_target("hourly", v) leaves a new scheduler in at the      *)
(* epoch, and no configuration call after it.                              *)
(***************************************************************************)
Scheduled(v) ==
    LET tv  == [p \in Periods |-> IF p = "hourly" THEN v ELSE 0]
        ah  == [i \in 1 .. HoursPerDay |-> i - 1]
        ad  == 0 .. (DaysPerWeek - 1)
        sd  == DefaultStart(None, 0)
        ed  == DefaultEnd(None, 0)
        tv1 == DeriveTargets(tv, TotalDays(sd, ed), ActiveDaysCount(sd, ed, ad),
                             Len(ah))
    IN  /\ target_visits = tv1
        /\ start_date = Some(sd)
        /\ end_date = Some(ed)
        /\ active_hours = ah
        /\ active_days = ad
        /\ schedule_mode = "even"
        /\ hourly_visits = 0
        /\ daily_visits = 0
        /\ monthly_visits = 0
        /\ total_visits = 0
        /\ last_hour = None
        /\ last_day = None
        /\ last_month = None
        /\ hourly_targets = HourlyTable(tv1, sd, ed, ah, ad, "even")
        /\ now = 0
        /\ pending = 0
        /\ op = <<"set_target", "hourly", v>>
        /\ ret = "None"
        /\ snapshot = None
        /\ raised = FALSE
        /\ calls_left = 0
        /\ user_targets = tv
        /\ bucket_recs = 0
        /\ gate_seen = "none"
        /\ spent = FALSE

InitQuota ==
    /\ \E v \in 1 .. MaxTarget : Scheduled(v)
    /\ BotCreated(1, MaxThreads, {<< >>, <<"r1">>})

NextQuota ==
    \/ \E keyword \in KeywordNames : add_keyword(keyword)
    \/ \E url \in UrlNames : add_url(url)
    \/ \E n \in 0 .. MaxThreads : start(n)
    \/ pause
    \/ resume
    \/ stop
    \/ stop_return
    \/ \E w \in Threads : WorkerStep(w)

SpecQuota == InitQuota /\ [][NextQuota]_vars

(***************************************************************************)
(* Properties of the pool and the quota.                                   *)
(***************************************************************************)
\* C36: the record_visit calls made for the bucket of now, by any number of
\* workers that share the scheduler, never exceed the target the table
\* gives that bucket.
C36_RecordsWithinTarget ==
    Key(now) \in DOMAIN hourly_targets =>
        bucket_recs <= hourly_targets[Key(now)]

\* the threads that are inside worker() and have not left its loop
LiveLoops == {w \in Threads : pc[w] \notin {"unborn", "exited"}}

\* C37: while the pool runs, the worker loops that are alive are at most
\* as many as the worker count the last start() was given (the threads
\* that start() has put in worker_threads, which stop() had emptied), also
\* when the stop() before it returned while a worker was inside a visit.
C37_LiveLoopsWithinWorkerCount ==
    running => Cardinality(LiveLoops) <= Len(worker_threads)

\* the queue after the step begins with the queue before it: nothing was
\* removed and nothing was put ahead
QueueKept ==
    /\ Len(task_queue') >= Len(task_queue)
    /\ SubSeq(task_queue', 1, Len(task_queue)) = task_queue

\* C38: stop() itself, up to its return, leaves the queue, the statistics
\* and the live counters as they are; and from the call of stop() to the
\* next start() that takes effect (running is False) no task leaves the
\* queue, so that the tasks queued when stop() was called are there, in
\* their order, ahead of the tasks start() seeds.
C38_StopKeepsQueue ==
    [][/\ (stop \/ stop_return) => UNCHANGED <<task_queue, stats, counters>>
       /\ ~running => QueueKept
      ]_vars


(***************************************************************************)
(* The pool started, stopped and started again by one thread per run,      *)
(* with results pages of one link more than TopResults: what a start()     *)
(* finds left over from the run before, and what is enqueued after it.     *)
(***************************************************************************)
InitRerun ==
    Created(0) /\ BotCreated(MaxStarts, 1, {<<"r1", "r2", "r3", "r4">>})

SpecRerun == InitRerun /\ [][NextQuota]_vars

\* the tasks enqueued since the last start() that took effect, its own
\* seeding included
RunEnqueued == enqueued - seeded.base

\* C39 as stated: between one start() and the next at most
\* |urls| + 4 * |keywords| tasks are enqueued.
C39_EnqueuedWithinSeedBound ==
    RunEnqueued <= seeded.urls + (1 + TopResults) * seeded.keywords


\* C39, amended: between one start() and the next at most
\* |urls| + 4 * |keywords| + 3 * L tasks are enqueued, L being the Search
\* tasks that were queued or being executed when start() was called (none at
\* the first start); and if from some point on the pool stays running and
\* unpaused with a live worker loop, the queue is empty from some point on.
C39_EnqueuedWithinSeedAndLeftoverBound ==
    /\ [](RunEnqueued <= seeded.urls + (1 + TopResults) * seeded.keywords
                         + TopResults * seeded.searches)
    /\ (<>[](running /\ ~paused /\ LiveLoops # {})) => <>[](task_queue = << >>)

\* the thread per run takes a step whenever it can
LiveRerun == SpecRerun /\ \A w \in Threads : WF_vars(WorkerStep(w))

C39_Witness ==
    /\ seeded.searches > 0
    /\ RunEnqueued > seeded.urls + (1 + TopResults) * seeded.keywords
    /\ task_queue = << >> /\ dequeued = enqueued
    /\ running /\ ~paused /\ LiveLoops # {}


(***************************************************************************)
(* A task that the gate turns away.                                        *)
(***************************************************************************)
\* thread w, holding a dequeued task, is refused by should_generate_traffic
Refused(w) ==
    /\ pc[w] \in {"search_gate", "visit_gate"}
    /\ pc'[w] # pc[w]
    /\ ret' = "False"

\* C40: when the gate refuses a dequeued Visit or Search task, the task is
\* dropped: the thread goes back to its loop test with no task in hand,
\* nothing is put on the queue, nothing is recorded as executed, and the
\* statistics and the live counters are what they were.
C40_RefusedTaskDropped ==
    [][\A w \in Threads : Refused(w) =>
          /\ pc'[w] = "check" /\ task'[w] = None
          /\ outcome'[w] = "rejected"
          /\ task[w][1] \notin {task_queue[i] : i \in DOMAIN task_queue}
          /\ UNCHANGED <<task_queue, enqueued, dequeued, put_log>>
          /\ UNCHANGED <<stats, completed, record_calls, visit_incs>>
          /\ UNCHANGED <<counters, markers, bucket_recs>>]_vars

C40_Witness ==
    /\ op = <<"should_generate_traffic">> /\ ret = "False"
    /\ \E w \in Threads : pc[w] = "check" /\ outcome[w] = "rejected"
                          /\ task[w] = None
    /\ dequeued > 0 /\ total_visits > 0
    /\ stats.visits = visit_incs
====
